---------------------------- MODULE Spec2Model ----------------------------
(***************************************************************************)
(* Model of timetable_bot.py: the timetable index, the reminder storage,  *)
(* the command handlers and the scheduled (morning / evening) job.        *)
(*                                                                         *)
(* Dates are day numbers, day 0 being a Monday; a datetime is a record     *)
(* [day, hour, minute]; a "DD.MM.YYYY" string is a record [ok, day].       *)
(* A text is a sequence of chunks [c, n, v]: n characters of kind c (v is  *)
(* the number a digit chunk or a date chunk spells), so that a text of     *)
(* 200 characters is one chunk.                                            *)
(* A message is a sequence of lines; a line is a record                    *)
(* [kind, num, name, text, row].                                           *)
(***************************************************************************)
EXTENDS Integers, Sequences, FiniteSets, TLC

\* ---------------------------------------------------------------- bounds
\* Days the clock may advance past the day the process was started, in the
\* specification that runs over several days.
Days == 1
\* Reminders the model lets one user hold (the code sets no limit).
MaxItems == 2

\* ------------------------------------------------------- program constants
REMINDER_MORNING_TIME == [hour |-> 7, minute |-> 30]
REMINDER_EVENING_TIME == [hour |-> 19, minute |-> 30]
\* len(reminder_text) > 200 is rejected
MAX_REMINDER_LEN == 200
\* date.weekday() < 5
FIRST_WEEKEND_DAY == 5
DAYS_IN_WEEK == 7

Users == {1, 2}
\* user.first_name as the transport reports it; user 2 has none.
first_name(u) == IF u = 1 THEN "Anna" ELSE ""
DEFAULT_NAME == "Polzovatel"
NoName == "<absent>"

\* ------------------------------------------------------------------ texts
Run(c, n) == [c |-> c, n |-> n, v |-> 0]
EmptyText == << >>
Whitespace == {" "}

RECURSIVE TextLen(_)
TextLen(t) == IF t = << >> THEN 0 ELSE Head(t).n + TextLen(Tail(t))

RECURSIVE LStrip(_, _)
LStrip(t, chars) ==
    IF t = << >> THEN t
    ELSE IF Head(t).c \in chars \/ Head(t).n = 0 THEN LStrip(Tail(t), chars)
    ELSE t

RECURSIVE RStrip(_, _)
RStrip(t, chars) ==
    IF t = << >> THEN t
    ELSE IF t[Len(t)].c \in chars \/ t[Len(t)].n = 0
         THEN RStrip(SubSeq(t, 1, Len(t) - 1), chars)
    ELSE t

\* str.strip(chars)
Strip(t, chars) == RStrip(LStrip(t, chars), chars)

\* " ".join(args)
RECURSIVE Join(_)
Join(args) ==
    IF args = << >> THEN EmptyText
    ELSE IF Len(args) = 1 THEN args[1]
    ELSE args[1] \o <<Run(" ", 1)>> \o Join(Tail(args))

\* ------------------------------------------------------------------ dates
DateTime(d, h, m) == [day |-> d, hour |-> h, minute |-> m]
DateStr(d) == [ok |-> TRUE, day |-> d]
BadDateStr == [ok |-> FALSE, day |-> 0]

\* Timetable.date_to_str: the time of day is dropped.
date_to_str(date) == DateStr(date.day)

\* A parse that falls back to a date when the string is not one.
parse_date_Lenient(s) == [err |-> FALSE, val |-> DateTime(s.day, 0, 0)]

\* Timetable.parse_date: midnight of the day, or ValueError.
parse_date(s) ==
    IF s.ok THEN [err |-> FALSE, val |-> DateTime(s.day, 0, 0)]
    ELSE [err |-> TRUE, val |-> DateTime(0, 0, 0)]

weekday(date) == date.day % DAYS_IN_WEEK

\* Timetable.is_working_day
is_working_day(date) == weekday(date) < FIRST_WEEKEND_DAY

\* now + timedelta(days=k)
PlusDays(date, k) == [date EXCEPT !.day = @ + k]

Midnight(date) == [date EXCEPT !.hour = 0, !.minute = 0]

RECURSIVE SkipWeekend(_)
SkipWeekend(current) ==
    IF is_working_day(current) THEN current ELSE SkipWeekend(PlusDays(current, 1))

\* A search that starts at from_date itself.
get_next_working_day_FromToday(from_date) == SkipWeekend(Midnight(from_date))

\* Timetable.get_next_working_day
get_next_working_day(from_date) == SkipWeekend(PlusDays(Midnight(from_date), 1))


\* --------------------------------------------------------------- timetable
Row(date, para, disc, theme, kind, teach, room) ==
    [Date |-> date, Para |-> para, Disc |-> disc, Theme |-> theme,
     Kind |-> kind, Teach |-> teach, Room |-> room]

\* Timetable.data as load_csv leaves it: the rows of the CSV file in file
\* order.  Monday 0: two sessions out of order; Tuesday 1: nothing;
\* Wednesday 2: a row whose pair number is not a number; Thursday 3: one
\* session; Friday 4: self-study only; Saturday 5: a session; Sunday 6:
\* nothing; Monday 7: a session and a self-study row; Tuesday 8: self-study.
\* One row has no date.
TimetableData ==
    << Row(DateStr(0), "2", "Physics", "", "lab", "Petrov", "101"),
       Row(DateStr(0), "1", "Math", "T1", "lecture", "", "202"),
       Row(BadDateStr, "1", "Lost", "", "", "", ""),
       Row(DateStr(2), "x", "History", "", "lecture", "Ivanov", ""),
       Row(DateStr(3), "1", "Math", "T2", "seminar", "Sidorov", "202"),
       Row(DateStr(4), "1", "", "", "", "", ""),
       Row(DateStr(4), "2", "", "", "", "", ""),
       Row(DateStr(5), "3", "Chemistry", "", "lab", "Petrov", "303"),
       Row(DateStr(7), "2", "", "", "", "", ""),
       Row(DateStr(7), "1", "Physics", "T3", "lecture", "Petrov", "101"),
       Row(DateStr(8), "1", "", "", "", "", "") >>

\* int(x['Пара']): the number, or ValueError.
IsNumeric(s) == s \in {"1", "2", "3"}
IntOf(s) == CASE s = "1" -> 1 [] s = "2" -> 2 [] s = "3" -> 3 [] OTHER -> 0

RECURSIVE SelectRows(_, _)
SelectRows(rows, date_str) ==
    IF rows = << >> THEN << >>
    ELSE IF Head(rows).Date = date_str
         THEN <<Head(rows)>> \o SelectRows(Tail(rows), date_str)
    ELSE SelectRows(Tail(rows), date_str)

\* One step of a stable insertion sort on int(row['Пара']).
RECURSIVE InsertByPair(_, _)
InsertByPair(sorted, row) ==
    IF sorted = << >> THEN <<row>>
    ELSE IF IntOf(sorted[Len(sorted)].Para) <= IntOf(row.Para)
         THEN Append(sorted, row)
    ELSE Append(InsertByPair(SubSeq(sorted, 1, Len(sorted) - 1), row),
                sorted[Len(sorted)])

RECURSIVE SortByPair(_)
SortByPair(rows) ==
    IF rows = << >> THEN << >>
    ELSE InsertByPair(SortByPair(SubSeq(rows, 1, Len(rows) - 1)), rows[Len(rows)])

\* Timetable.get_timetable_for_date: the day's rows sorted by pair number;
\* err when int() raises ValueError on one of them.
get_timetable_for_date(date) ==
    LET classes == SelectRows(TimetableData, date_to_str(date))
    IN  IF \E i \in 1..Len(classes) : ~IsNumeric(classes[i].Para)
        THEN [err |-> TRUE, val |-> << >>]
        ELSE [err |-> FALSE, val |-> SortByPair(classes)]

\* ---------------------------------------------------------------- messages
NoRow == Row(BadDateStr, "", "", "", "", "", "")
Line(kind, num, name, text, row) ==
    [kind |-> kind, num |-> num, name |-> name, text |-> text, row |-> row]
Blank == Line("blank", 0, "", EmptyText, NoRow)

OrDash(s) == IF s = "" THEN "-" ELSE s

\* One session line: "pair. subject (theme) | type | teacher | room".
ClassLine(cls) ==
    Line("class", 0, "", EmptyText,
         Row(BadDateStr, cls.Para, OrDash(cls.Disc),
             IF OrDash(cls.Theme) # "-" THEN cls.Theme ELSE "",
             OrDash(cls.Kind), OrDash(cls.Teach), OrDash(cls.Room)))

all_self_study(classes) == \A i \in 1..Len(classes) : classes[i].Disc = ""

\* Timetable.format_timetable
format_timetable(date) ==
    LET got == get_timetable_for_date(date)
        classes == got.val
        d == date_to_str(date).day
    IN  IF got.err THEN [err |-> TRUE, val |-> << >>]
        ELSE IF classes = << >>
             THEN [err |-> FALSE, val |-> <<Line("no_pairs", d, "", EmptyText, NoRow)>>]
        ELSE IF all_self_study(classes)
             THEN [err |-> FALSE,
                   val |-> <<Line("self_study", d, "", EmptyText, NoRow), Blank,
                             Line("thesis", 0, "", EmptyText, NoRow)>>]
        ELSE [err |-> FALSE,
              val |-> <<Line("header", d, "", EmptyText, NoRow), Blank>>
                      \o [i \in 1..Len(classes) |-> ClassLine(classes[i])]]

\* user_names.get(user_id, f"User {user_id}")
NameOrDefault(names, user_id) ==
    IF names[user_id] = NoName THEN IF user_id = 1 THEN "User 1" ELSE "User 2"
    ELSE names[user_id]

\* A block that shows the first reminder of the user only.
UserBlock_FirstOnly(entry, names) ==
    IF entry.items = << >> THEN << >>
    ELSE <<Line("user", entry.uid, NameOrDefault(names, entry.uid), EmptyText, NoRow),
           Line("quoted", 0, "", entry.items[1], NoRow), Blank>>

\* The lines of one user: "@name:", the quoted texts, an empty line.
UserBlock(entry, names) ==
    IF entry.items = << >> THEN << >>
    ELSE <<Line("user", entry.uid, NameOrDefault(names, entry.uid), EmptyText, NoRow)>>
         \o (IF Len(entry.items) = 1
             THEN <<Line("quoted", 0, "", entry.items[1], NoRow)>>
             ELSE [i \in 1..Len(entry.items) |->
                      Line("numbered", i, "", entry.items[i], NoRow)])
         \o <<Blank>>

RECURSIVE RStripLines(_)
RStripLines(lines) ==
    IF lines = << >> THEN lines
    ELSE IF lines[Len(lines)] = Blank THEN RStripLines(SubSeq(lines, 1, Len(lines) - 1))
    ELSE lines

RECURSIVE AllBlocks(_, _)
AllBlocks(all_reminders, names) ==
    IF all_reminders = << >> THEN << >>
    ELSE UserBlock(Head(all_reminders), names) \o AllBlocks(Tail(all_reminders), names)

\* format_reminders_output
format_reminders_output(all_reminders, names) ==
    RStripLines(AllBlocks(all_reminders, names))

\* message += "\n\n" + reminders_text, when there is a text
WithReminders(message, reminders_text) ==
    IF reminders_text # << >> THEN message \o <<Blank>> \o reminders_text ELSE message


\* ------------------------------------------------------------------- state
VARIABLES
    now,             \* datetime.now(TIMEZONE)
    last_day,        \* the last day the process runs
    fired,           \* which daily jobs have run today
    reminders,       \* ReminderStorage.reminders, in dict (insertion) order
    announced_dates, \* ReminderStorage.announced_dates
    user_names,      \* the process-wide cache user id -> display name
    user_data,       \* context.user_data of each user: the waiting_for_* flags
    disk,            \* the contents of reminders.json
    fs,              \* how the next write to reminders.json ends
    job,             \* the scheduled_reminder call in flight, if any
    chat,            \* the scheduled messages the group chat has received
    out              \* what the last step sent: a chat message, a reply, nothing

vars == <<now, last_day, fired, reminders, announced_dates, user_names, user_data,
          disk, fs, job, chat, out>>

\* --------------------------------------------------------- ReminderStorage
Entry(uid, items) == [uid |-> uid, items |-> items]

HasKey(rem, user_id) == \E i \in 1..Len(rem) : rem[i].uid = user_id
KeyIndex(rem, user_id) == CHOOSE i \in 1..Len(rem) : rem[i].uid = user_id

RECURSIVE DelKey(_, _)
DelKey(rem, user_id) ==
    IF rem = << >> THEN << >>
    ELSE IF Head(rem).uid = user_id THEN DelKey(Tail(rem), user_id)
    ELSE <<Head(rem)>> \o DelKey(Tail(rem), user_id)

\* list.pop(index), index counted from 0
Pop(items, index) ==
    SubSeq(items, 1, index) \o SubSeq(items, index + 2, Len(items))

\* ReminderStorage.get_reminders
get_reminders(rem, user_id) ==
    IF HasKey(rem, user_id) THEN rem[KeyIndex(rem, user_id)].items ELSE << >>

\* The storage object together with its file.
Store == [reminders |-> reminders, announced_dates |-> announced_dates, disk |-> disk]

\* json.dump turns the integer keys into strings.
KeyToStr(uid) == [str |-> uid]
StrToKey(k) == k.str
ToJson(S) ==
    [status |-> "ok",
     reminders |-> [i \in 1..Len(S.reminders) |->
                       [key |-> KeyToStr(S.reminders[i].uid),
                        items |-> S.reminders[i].items]],
     announced_dates |-> S.announced_dates]
NoFile == [status |-> "absent", reminders |-> << >>, announced_dates |-> << >>]
Truncated == [status |-> "corrupt", reminders |-> << >>, announced_dates |-> << >>]

\* ReminderStorage.save: the file is rewritten; an exception is printed and
\* swallowed, the file then being untouched (open failed) or cut short.
save(S) ==
    [S EXCEPT !.disk = CASE fs = "ok" -> ToJson(S)
                         [] fs = "open_fails" -> S.disk
                         [] OTHER -> Truncated]

\* ReminderStorage.add_reminder
add_reminder(S, user_id, text) ==
    LET withKey == IF HasKey(S.reminders, user_id) THEN S.reminders
                   ELSE Append(S.reminders, Entry(user_id, << >>))
        i == KeyIndex(withKey, user_id)
    IN  save([S EXCEPT !.reminders =
                  [withKey EXCEPT ![i].items = Append(@, text)]])

\* A delete-all that empties the list of the user and keeps the key.
delete_all_reminders_KeepKey(S, user_id) ==
    IF HasKey(S.reminders, user_id)
    THEN save([S EXCEPT !.reminders =
                  [@ EXCEPT ![KeyIndex(S.reminders, user_id)].items = << >>]])
    ELSE S

\* ReminderStorage.delete_all_reminders
delete_all_reminders(S, user_id) ==
    IF HasKey(S.reminders, user_id)
    THEN save([S EXCEPT !.reminders = DelKey(@, user_id)])
    ELSE S

\* A delete-one that leaves the key of the user with an empty list.
delete_reminder_KeepKey(S, user_id, index) ==
    IF HasKey(S.reminders, user_id)
       /\ 0 <= index /\ index < Len(get_reminders(S.reminders, user_id))
    THEN LET i == KeyIndex(S.reminders, user_id)
         IN  save([S EXCEPT !.reminders =
                       [@ EXCEPT ![i].items = Pop(S.reminders[i].items, index)]])
    ELSE S

\* ReminderStorage.delete_reminder
delete_reminder(S, user_id, index) ==
    IF HasKey(S.reminders, user_id)
       /\ 0 <= index /\ index < Len(get_reminders(S.reminders, user_id))
    THEN LET i == KeyIndex(S.reminders, user_id)
             popped == Pop(S.reminders[i].items, index)
         IN  save([S EXCEPT !.reminders =
                       IF popped = << >> THEN DelKey(@, user_id)
                       ELSE [@ EXCEPT ![i].items = popped]])
    ELSE S

\* A test that looks at the date announced last only.
is_announced_today_Latest(S, date_str) ==
    /\ S.announced_dates # << >>
    /\ S.announced_dates[Len(S.announced_dates)] = date_str

\* ReminderStorage.is_announced_today
is_announced_today(S, date_str) ==
    \E i \in 1..Len(S.announced_dates) : S.announced_dates[i] = date_str

\* ReminderStorage.mark_announced
mark_announced(S, date_str) ==
    IF ~is_announced_today(S, date_str)
    THEN save([S EXCEPT !.announced_dates = Append(@, date_str)])
    ELSE S

\* ReminderStorage.clear_announced
clear_announced(S) == save([S EXCEPT !.announced_dates = << >>])

\* A load that takes the users in the order of their ids, not of the file.
load_SortedKeys(file) ==
    IF file.status = "ok"
    THEN LET loaded == [i \in 1..Len(file.reminders) |->
                           Entry(StrToKey(file.reminders[i].key), file.reminders[i].items)]
         IN  [reminders |-> SelectSeq(loaded, LAMBDA e : e.uid = 1)
                            \o SelectSeq(loaded, LAMBDA e : e.uid # 1),
              announced_dates |-> file.announced_dates,
              disk |-> file]
    ELSE [reminders |-> << >>, announced_dates |-> << >>, disk |-> file]

\* ReminderStorage.load: the file's contents, or the empty storage when the
\* file is absent or unreadable.
load(file) ==
    IF file.status = "ok"
    THEN [reminders |-> [i \in 1..Len(file.reminders) |->
                            Entry(StrToKey(file.reminders[i].key), file.reminders[i].items)],
          announced_dates |-> file.announced_dates,
          disk |-> file]
    ELSE [reminders |-> << >>, announced_dates |-> << >>, disk |-> file]

SetStore(S) ==
    /\ reminders' = S.reminders
    /\ announced_dates' = S.announced_dates
    /\ disk' = S.disk


\* ------------------------------------------------------------------ output
Out(ev, kind, user, day, target, msg, block) ==
    [ev |-> ev, kind |-> kind, user |-> user, day |-> day, target |-> target,
     msg |-> msg, block |-> block]
NoOut == Out("none", "", 0, 0, BadDateStr, << >>, FALSE)
Reply(kind, user, target, msg, block) ==
    Out("reply", kind, user, now.day, target, msg, block)
\* An exception left the handler: the framework logs it, nothing is sent.
HandlerError(user) == Out("handler_error", "", user, now.day, BadDateStr, << >>, FALSE)

\* user_names[user.id] = user.first_name or "Пользователь"
SeeUser(u) ==
    user_names' = [user_names EXCEPT
                      ![u] = IF first_name(u) = "" THEN DEFAULT_NAME ELSE first_name(u)]
SeenNames(u) ==
    [user_names EXCEPT ![u] = IF first_name(u) = "" THEN DEFAULT_NAME ELSE first_name(u)]

\* ------------------------------------------------------------------- clock
TimeOfDay(h, m) == [hour |-> h, minute |-> m]
\* The moments of a day the model looks at: the minute after the morning
\* time (the morning job runs late) and the evening time (the evening job
\* runs on time).
TimePoints ==
    << TimeOfDay(REMINDER_MORNING_TIME.hour, REMINDER_MORNING_TIME.minute + 1),
       REMINDER_EVENING_TIME >>

PointOf(t) == CHOOSE i \in 1..Len(TimePoints) :
                  TimePoints[i] = TimeOfDay(t.hour, t.minute)

JobKinds == {"morning", "evening"}
\* data={'time': ...} of the two run_daily jobs
JobTime(kind) == IF kind = "morning" THEN REMINDER_MORNING_TIME ELSE REMINDER_EVENING_TIME

Before(t, time) ==
    t.hour < time.hour \/ (t.hour = time.hour /\ t.minute < time.minute)

\* run_daily: the job runs once a day, at its time or within the minute after.
JobDue(kind) ==
    /\ ~fired[kind]
    /\ \/ TimeOfDay(now.hour, now.minute) = JobTime(kind)
       \/ TimeOfDay(now.hour, now.minute - 1) = JobTime(kind)

Idle == [pc |-> "idle", kind |-> "", day |-> 0, date_str |-> BadDateStr, message |-> << >>]

\* Time passes: to the next moment of the day, or to the next morning.
Tick ==
    /\ job.pc = "idle"
    /\ IF PointOf(now) < Len(TimePoints)
       THEN /\ now' = [now EXCEPT !.hour = TimePoints[PointOf(now) + 1].hour,
                                  !.minute = TimePoints[PointOf(now) + 1].minute]
            /\ fired' = fired
       ELSE /\ now.day < last_day
            /\ now' = DateTime(now.day + 1, TimePoints[1].hour, TimePoints[1].minute)
            /\ fired' = [k \in JobKinds |-> FALSE]
    /\ out' = NoOut
    /\ UNCHANGED <<last_day, reminders, announced_dates, user_names, user_data, disk, fs, job, chat>>

\* --------------------------------------------------------------- scheduler
\* A job that announces the next working day.
TargetDate_NextWorking(t, target_time) == get_next_working_day(t)

\* scheduled_reminder: which date the job announces.
TargetDate(t, target_time) ==
    IF Before(t, target_time) THEN t ELSE PlusDays(t, 1)

\* A job that also stays silent on Saturdays and Sundays.
Suppress_Weekend(target_date, classes) ==
    classes = << >> \/ ~is_working_day(target_date)

\* A job that never stays silent.
Suppress_Never(target_date, classes) == FALSE

\* scheduled_reminder: "if not classes: return", the only test on the date.
Suppress(target_date, classes) == classes = << >>

\* A job that leaves the reminders out on a self-study day.
JobMessage_SelfStudySilent(target_date, all_reminders, names) ==
    LET message == format_timetable(target_date).val
        classes == get_timetable_for_date(target_date).val
    IN  IF all_reminders # << >> /\ ~all_self_study(classes)
        THEN WithReminders(message, format_reminders_output(all_reminders, names))
        ELSE message

\* scheduled_reminder: the message, the timetable with the reminders of all users.
JobMessage(target_date, all_reminders, names) ==
    LET message == format_timetable(target_date).val
    IN  IF all_reminders # << >>
        THEN WithReminders(message, format_reminders_output(all_reminders, names))
        ELSE message

\* A dispatch that uses the reminders up: it also empties the ledger.
AfterSend_Clearing(S, date_str) ==
    save([mark_announced(S, date_str) EXCEPT !.reminders = << >>])

\* scheduled_reminder: after send_message has returned.
AfterSend(S, date_str) == mark_announced(S, date_str)

\* A failed dispatch that marks the date all the same.
AfterSendError_Marking(S, date_str) == mark_announced(S, date_str)

\* scheduled_reminder: after send_message has raised; the error is printed.
AfterSendError(S, date_str) == S

\* scheduled_reminder up to the await of send_message.
ScheduledStart(kind) ==
    /\ job.pc = "idle"
    /\ JobDue(kind)
    /\ fired' = [fired EXCEPT ![kind] = TRUE]
    /\ LET target_date == TargetDate(now, JobTime(kind))
           got == get_timetable_for_date(target_date)
           date_str == date_to_str(target_date)
       IN  IF got.err
           THEN /\ job' = Idle
                /\ out' = Out("job_error", kind, 0, now.day, date_str, << >>, FALSE)
           ELSE IF Suppress(target_date, got.val)
           THEN /\ job' = Idle
                /\ out' = Out("suppressed", kind, 0, now.day, date_str, << >>, FALSE)
           ELSE /\ job' = [pc |-> "sending", kind |-> kind, day |-> now.day,
                           date_str |-> date_str,
                           message |-> JobMessage(target_date, reminders, user_names)]
                /\ out' = NoOut
    /\ UNCHANGED <<now, last_day, reminders, announced_dates, user_names, user_data, disk, fs, chat>>

\* A send that renders the reminders again when it goes out.
SendOk_Rerender ==
    /\ job.pc = "sending"
    /\ SetStore(AfterSend(Store, job.date_str))
    /\ out' = Out("sent", job.kind, 0, job.day, job.date_str,
                  JobMessage(parse_date(job.date_str).val, reminders, user_names), FALSE)
    /\ chat' = chat \cup {[kind |-> job.kind, target |-> job.date_str]}
    /\ job' = Idle
    /\ UNCHANGED <<now, last_day, fired, user_names, user_data, fs>>

\* send_message returns: the chat has the message, the date is marked.
SendOk ==
    /\ job.pc = "sending"
    /\ SetStore(AfterSend(Store, job.date_str))
    /\ out' = Out("sent", job.kind, 0, job.day, job.date_str, job.message, FALSE)
    /\ chat' = chat \cup {[kind |-> job.kind, target |-> job.date_str]}
    /\ job' = Idle
    /\ UNCHANGED <<now, last_day, fired, user_names, user_data, fs>>

\* send_message raises.
SendFail ==
    /\ job.pc = "sending"
    /\ SetStore(AfterSendError(Store, job.date_str))
    /\ out' = Out("send_failed", job.kind, 0, job.day, job.date_str, << >>, FALSE)
    /\ job' = Idle
    /\ UNCHANGED <<now, last_day, fired, user_names, user_data, fs, chat>>


\* ---------------------------------------------------------------- commands
Flags(r, d, c) ==
    [waiting_for_reminder |-> r, waiting_for_deletion |-> d, waiting_for_date |-> c]
NoFlags == Flags(FALSE, FALSE, FALSE)

\* A lookup that marks the date whether it showed the reminders or not.
Lookup_AlwaysMarking(S, names, target_date) ==
    LET got == format_timetable(target_date)
        date_str == date_to_str(target_date)
        reminders_text == format_reminders_output(S.reminders, names)
        block == /\ ~is_announced_today(S, date_str)
                 /\ S.reminders # << >>
                 /\ reminders_text # << >>
    IN  [err |-> got.err,
         date_str |-> date_str,
         block |-> ~got.err /\ block,
         message |-> IF got.err THEN << >>
                     ELSE IF block THEN WithReminders(got.val, reminders_text)
                     ELSE got.val,
         store |-> IF ~got.err THEN mark_announced(S, date_str) ELSE S]

\* A lookup that uses the reminders up: once shown they leave the ledger.
Lookup_Consuming(S, names, target_date) ==
    LET got == format_timetable(target_date)
        date_str == date_to_str(target_date)
        reminders_text == format_reminders_output(S.reminders, names)
        block == /\ ~is_announced_today(S, date_str)
                 /\ S.reminders # << >>
                 /\ reminders_text # << >>
    IN  [err |-> got.err,
         date_str |-> date_str,
         block |-> ~got.err /\ block,
         message |-> IF got.err THEN << >>
                     ELSE IF block THEN WithReminders(got.val, reminders_text)
                     ELSE got.val,
         store |-> IF ~got.err /\ block
                   THEN save([mark_announced(S, date_str) EXCEPT !.reminders = << >>])
                   ELSE S]

\* The tail the three lookups share: the timetable of the date and, when the
\* date is not announced yet and there are reminders, the reminders of all
\* users, the date then being marked.  err: format_timetable raised.
Lookup(S, names, target_date) ==
    LET got == format_timetable(target_date)
        date_str == date_to_str(target_date)
        reminders_text == format_reminders_output(S.reminders, names)
        block == /\ ~is_announced_today(S, date_str)
                 /\ S.reminders # << >>
                 /\ reminders_text # << >>
    IN  [err |-> got.err,
         date_str |-> date_str,
         block |-> ~got.err /\ block,
         message |-> IF got.err THEN << >>
                     ELSE IF block THEN WithReminders(got.val, reminders_text)
                     ELSE got.val,
         store |-> IF ~got.err /\ block THEN mark_announced(S, date_str) ELSE S]

\* /get_timetable [DD.MM.YYYY]
get_timetable_cmd(u, args) ==
    /\ SeeUser(u)
    /\ LET parsed == IF args # << >> THEN parse_date(args[1])
                     ELSE [err |-> FALSE, val |-> get_next_working_day(now)]
           r == Lookup(Store, SeenNames(u), parsed.val)
       IN  IF parsed.err
           THEN /\ out' = Reply("bad_date", u, BadDateStr, << >>, FALSE)
                /\ UNCHANGED <<reminders, announced_dates, disk>>
           ELSE IF r.err
           THEN /\ out' = HandlerError(u)
                /\ UNCHANGED <<reminders, announced_dates, disk>>
           ELSE /\ out' = Reply("timetable", u, r.date_str, r.message, r.block)
                /\ SetStore(r.store)
    /\ UNCHANGED <<now, last_day, fired, user_data, fs, job, chat>>

\* /set_reminder "text": the text the command stores.
ReminderTextOfArgs(args) == Strip(Join(args), {"\""})

TooLong(reminder_text) == TextLen(reminder_text) > MAX_REMINDER_LEN

\* A /set_reminder that lets a user hold one reminder only.
set_reminder_cmd_Capped(u, args) ==
    /\ SeeUser(u)
    /\ IF args = << >>
       THEN /\ out' = Reply("usage", u, BadDateStr, << >>, FALSE)
            /\ UNCHANGED <<reminders, announced_dates, disk>>
       ELSE IF TooLong(ReminderTextOfArgs(args))
       THEN /\ out' = Reply("too_long", u, BadDateStr, << >>, FALSE)
            /\ UNCHANGED <<reminders, announced_dates, disk>>
       ELSE IF Len(get_reminders(reminders, u)) >= 1
       THEN /\ out' = Reply("capacity", u, BadDateStr, << >>, FALSE)
            /\ UNCHANGED <<reminders, announced_dates, disk>>
       ELSE /\ SetStore(add_reminder(Store, u, ReminderTextOfArgs(args)))
            /\ out' = Reply("added", u, BadDateStr,
                            <<Line("quoted", 0, "", ReminderTextOfArgs(args), NoRow)>>, FALSE)
    /\ UNCHANGED <<now, last_day, fired, user_data, fs, job, chat>>

\* /set_reminder "text"
set_reminder_cmd(u, args) ==
    /\ SeeUser(u)
    /\ IF args = << >>
       THEN /\ out' = Reply("usage", u, BadDateStr, << >>, FALSE)
            /\ UNCHANGED <<reminders, announced_dates, disk>>
       ELSE IF TooLong(ReminderTextOfArgs(args))
       THEN /\ out' = Reply("too_long", u, BadDateStr, << >>, FALSE)
            /\ UNCHANGED <<reminders, announced_dates, disk>>
       ELSE /\ SetStore(add_reminder(Store, u, ReminderTextOfArgs(args)))
            /\ out' = Reply("added", u, BadDateStr,
                            <<Line("quoted", 0, "", ReminderTextOfArgs(args), NoRow)>>, FALSE)
    /\ UNCHANGED <<now, last_day, fired, user_data, fs, job, chat>>

CallbackData == {"timetable_today", "timetable_tomorrow", "timetable_next",
                 "timetable_custom"}

\* The inline buttons under "choose a date".
callback_timetable(u, data) ==
    /\ SeeUser(u)
    /\ IF data = "timetable_custom"
       THEN /\ user_data' = [user_data EXCEPT ![u].waiting_for_date = TRUE]
            /\ out' = Reply("ask_date", u, BadDateStr, << >>, FALSE)
            /\ UNCHANGED <<reminders, announced_dates, disk>>
       ELSE LET target_date == CASE data = "timetable_today" -> now
                                 [] data = "timetable_tomorrow" -> PlusDays(now, 1)
                                 [] OTHER -> get_next_working_day(now)
                r == Lookup(Store, SeenNames(u), target_date)
            IN  /\ user_data' = user_data
                /\ IF r.err
                   THEN /\ out' = HandlerError(u)
                        /\ UNCHANGED <<reminders, announced_dates, disk>>
                   ELSE /\ out' = Reply("timetable", u, r.date_str, r.message, r.block)
                        /\ SetStore(r.store)
    /\ UNCHANGED <<now, last_day, fired, fs, job, chat>>


\* ------------------------------------------------------------ text messages
Chunk(c, n, v) == [c |-> c, n |-> n, v |-> v]
\* The four buttons of the reply keyboard.
BTN_TIMETABLE == <<Chunk("btn_timetable", 12, 0)>>
BTN_MY_REMINDERS == <<Chunk("btn_my_reminders", 17, 0)>>
BTN_ADD_REMINDER == <<Chunk("btn_add_reminder", 22, 0)>>
BTN_DELETE_REMINDER == <<Chunk("btn_delete_reminder", 22, 0)>>
\* A number, the word for "all" (in either case) and a date, as texts.
DigitText(k) == <<Chunk("digit", 1, k)>>
AllWord == <<Chunk("vse", 3, 0)>>
AllWordUpper == <<Chunk("VSE", 3, 0)>>
DateText(d) == <<Chunk("date", 10, d)>>

\* str.lower()
Lower(t) == [i \in 1..Len(t) |-> IF t[i].c = "VSE" THEN [t[i] EXCEPT !.c = "vse"] ELSE t[i]]

\* int(text): the number, or ValueError.
ParseInt(t) ==
    IF Len(t) = 1 /\ t[1].c = "digit" THEN [err |-> FALSE, val |-> t[1].v]
    ELSE [err |-> TRUE, val |-> 0]

\* The text as a "DD.MM.YYYY" string, if it spells one.
TextAsDateStr(t) ==
    IF Len(t) = 1 /\ t[1].c = "date" THEN DateStr(t[1].v) ELSE BadDateStr

Result(S, F, O) == [store |-> S, flags |-> F, out |-> O]

\* The list a user is shown: one numbered line for each reminder.
NumberedLines(items) ==
    [i \in 1..Len(items) |-> Line("numbered", i, "", items[i], NoRow)]

\* button_timetable
button_timetable(S, F, u) ==
    Result(S, F, Reply("choose_date", u, BadDateStr, << >>, FALSE))

\* button_my_reminders
button_my_reminders(S, F, u) ==
    LET user_reminders == get_reminders(S.reminders, u)
    IN  IF user_reminders # << >>
        THEN Result(S, F, Reply("my_reminders", u, BadDateStr,
                                NumberedLines(user_reminders), FALSE))
        ELSE Result(S, F, Reply("no_reminders", u, BadDateStr, << >>, FALSE))

\* button_add_reminder
button_add_reminder(S, F, u) ==
    Result(S, [F EXCEPT !.waiting_for_reminder = TRUE],
           Reply("ask_reminder", u, BadDateStr, << >>, FALSE))

\* button_delete_reminder
button_delete_reminder(S, F, u) ==
    LET user_reminders == get_reminders(S.reminders, u)
    IN  IF user_reminders = << >>
        THEN Result(S, F, Reply("nothing_to_delete", u, BadDateStr, << >>, FALSE))
        ELSE IF Len(user_reminders) = 1
        THEN Result(delete_all_reminders(S, u), F,
                    Reply("deleted", u, BadDateStr, << >>, FALSE))
        ELSE Result(S, [F EXCEPT !.waiting_for_deletion = TRUE],
                    Reply("ask_number", u, BadDateStr,
                          NumberedLines(user_reminders), FALSE))

\* handle_text_reminder, called with waiting_for_reminder set
handle_text_reminder(S, F, u, raw) ==
    LET reminder_text == Strip(raw, Whitespace)
    IN  IF ~F.waiting_for_reminder
        THEN Result(S, F, NoOut)
        ELSE IF TooLong(reminder_text)
        THEN Result(S, F, Reply("too_long", u, BadDateStr, << >>, FALSE))
        ELSE Result(add_reminder(S, u, reminder_text),
                    [F EXCEPT !.waiting_for_reminder = FALSE],
                    Reply("added", u, BadDateStr,
                          <<Line("quoted", 0, "", reminder_text, NoRow)>>, FALSE))

\* handle_deletion, called with waiting_for_deletion set
handle_deletion(S, F, u, raw) ==
    LET text == Lower(Strip(raw, Whitespace))
        user_reminders == get_reminders(S.reminders, u)
        parsed == ParseInt(text)
        index == parsed.val - 1
        done == [F EXCEPT !.waiting_for_deletion = FALSE]
    IN  IF ~F.waiting_for_deletion
        THEN Result(S, F, NoOut)
        ELSE IF text = AllWord
        THEN Result(delete_all_reminders(S, u), done,
                    Reply("deleted_all", u, BadDateStr, << >>, FALSE))
        ELSE IF parsed.err
        THEN Result(S, done, Reply("not_a_number", u, BadDateStr, << >>, FALSE))
        ELSE IF 0 <= index /\ index < Len(user_reminders)
        THEN Result(delete_reminder(S, u, index), done,
                    Reply("deleted_one", u, BadDateStr,
                          <<Line("quoted", 0, "", user_reminders[index + 1], NoRow)>>,
                          FALSE))
        ELSE Result(S, done, Reply("bad_number", u, BadDateStr, << >>, FALSE))

\* handle_custom_date, called with waiting_for_date set; a ValueError of
\* parse_date or of format_timetable is answered "wrong date format".
handle_custom_date(S, F, names, u, raw) ==
    LET parsed == parse_date(TextAsDateStr(Strip(raw, Whitespace)))
        r == Lookup(S, names, parsed.val)
    IN  IF ~F.waiting_for_date
        THEN Result(S, F, NoOut)
        ELSE IF parsed.err \/ r.err
        THEN Result(S, F, Reply("bad_date", u, BadDateStr, << >>, FALSE))
        ELSE Result(r.store, [F EXCEPT !.waiting_for_date = FALSE],
                    Reply("timetable", u, r.date_str, r.message, r.block))

\* A dispatch that looks at the pending flows before the buttons.
Dispatch_FlowsFirst(S, F, names, u, raw) ==
    LET text == Strip(raw, Whitespace)
    IN  IF F.waiting_for_reminder THEN handle_text_reminder(S, F, u, raw)
        ELSE IF F.waiting_for_deletion THEN handle_deletion(S, F, u, raw)
        ELSE IF F.waiting_for_date THEN handle_custom_date(S, F, names, u, raw)
        ELSE IF text = BTN_TIMETABLE THEN button_timetable(S, F, u)
        ELSE IF text = BTN_MY_REMINDERS THEN button_my_reminders(S, F, u)
        ELSE IF text = BTN_ADD_REMINDER THEN button_add_reminder(S, F, u)
        ELSE IF text = BTN_DELETE_REMINDER THEN button_delete_reminder(S, F, u)
        ELSE Result(S, F, Reply("unknown", u, BadDateStr, << >>, FALSE))

\* handle_text_input: which handler a text message goes to.
Dispatch(S, F, names, u, raw) ==
    LET text == Strip(raw, Whitespace)
    IN  IF text = BTN_TIMETABLE THEN button_timetable(S, F, u)
        ELSE IF text = BTN_MY_REMINDERS THEN button_my_reminders(S, F, u)
        ELSE IF text = BTN_ADD_REMINDER THEN button_add_reminder(S, F, u)
        ELSE IF text = BTN_DELETE_REMINDER THEN button_delete_reminder(S, F, u)
        ELSE IF F.waiting_for_reminder THEN handle_text_reminder(S, F, u, raw)
        ELSE IF F.waiting_for_deletion THEN handle_deletion(S, F, u, raw)
        ELSE IF F.waiting_for_date THEN handle_custom_date(S, F, names, u, raw)
        ELSE Result(S, F, Reply("unknown", u, BadDateStr, << >>, FALSE))

\* A text message that is not a command.
handle_text_input(u, raw) ==
    /\ SeeUser(u)
    /\ LET r == Dispatch(Store, user_data[u], SeenNames(u), u, raw)
       IN  /\ SetStore(r.store)
           /\ user_data' = [user_data EXCEPT ![u] = r.flags]
           /\ out' = r.out
    /\ UNCHANGED <<now, last_day, fired, fs, job, chat>>

\* /start
start(u) ==
    /\ SeeUser(u)
    /\ out' = Reply("hello", u, BadDateStr, << >>, FALSE)
    /\ UNCHANGED <<now, last_day, fired, reminders, announced_dates, user_data, disk,
                   fs, job, chat>>


\* ------------------------------------------------------------------ inputs
\* /set_reminder "aaa bb": two words, the quotes at both ends
ArgsQuoted == << <<Run("\"", 1), Run("a", 3)>>, <<Run("b", 2), Run("\"", 1)>> >>
\* /set_reminder with one word of 200 and of 201 characters
ArgsLongest == << <<Run("c", MAX_REMINDER_LEN)>> >>
ArgsTooLong == << <<Run("c", MAX_REMINDER_LEN + 1)>> >>
\* /set_reminder ""
ArgsEmptyQuotes == << <<Run("\"", 2)>> >>
\* /set_reminder
ArgsNone == << >>

\* Whether the model lets user u add one more reminder.
Room(u) == Len(get_reminders(reminders, u)) < MaxItems

\* ----------------------------------------------------------- specifications
InitStore ==
    /\ reminders = << >>
    /\ announced_dates = << >>
    /\ user_names = [u \in Users |-> NoName]
    /\ user_data = [u \in Users |-> NoFlags]
    /\ disk = NoFile
    /\ fs = "ok"
    /\ job = Idle
    /\ chat = {}
    /\ out = NoOut
    /\ fired = [k \in JobKinds |-> FALSE]

Morning(d) == DateTime(d, TimePoints[1].hour, TimePoints[1].minute)

\* The days the process is started on: Monday and Wednesday to Saturday, the
\* next day having nothing (Tuesday), sessions (Thursday), self-study only
\* (Friday), a session on a weekend (Saturday) and nothing (Sunday).
BootDays == {0, 2, 3, 4, 5}

\* One day of the process, started in the morning.
Init ==
    /\ now \in {Morning(d) : d \in BootDays}
    /\ last_day = now.day
    /\ InitStore

Fire == \E kind \in JobKinds : ScheduledStart(kind)

\* The arguments user u gives /set_reminder next: each user goes through
\* the three accepted texts in an order of his own.
AcceptedArgs == <<ArgsQuoted, ArgsEmptyQuotes, ArgsLongest>>
NextArgs(u) ==
    AcceptedArgs[((Len(get_reminders(reminders, u)) + u) % Len(AcceptedArgs)) + 1]

SetReminder == \E u \in Users : Room(u) /\ set_reminder_cmd(u, NextArgs(u))

Callback ==
    \E u \in Users, data \in {"timetable_today", "timetable_tomorrow"} :
        callback_timetable(u, data)

Next == Tick \/ Fire \/ SendOk \/ SendFail \/ SetReminder \/ Callback

Spec == Init /\ [][Next]_vars

\* Several days of the scheduler, started on a Thursday or a Friday; the
\* users only add reminders.
InitDays ==
    /\ now \in {Morning(d) : d \in {3, 4}}
    /\ last_day = now.day + Days
    /\ InitStore

NextDays == Tick \/ Fire \/ SendOk \/ SendFail \/ SetReminder

SpecDays == InitDays /\ [][NextDays]_vars


\* The ledger under the commands and the text messages of the users, on a
\* Wednesday morning with the morning job due.
InitLedger ==
    /\ now = Morning(2)
    /\ last_day = now.day
    /\ InitStore

\* The text user u sends next as a reminder: the next accepted text, with
\* spaces around it.
NextText(u) == <<Run(" ", 1)>> \o ReminderTextOfArgs(NextArgs(u)) \o <<Run(" ", 2)>>
TooLongText == <<Run("c", MAX_REMINDER_LEN + 1), Run(" ", 1)>>
\* What a user answers when asked which reminder to delete.
Answers == {DigitText(1), DigitText(2), <<Run(" ", 1)>> \o AllWordUpper}

\* The texts user u may send: a reminder when asked for one, an answer when
\* asked which reminder to delete, a button otherwise.
TextsOf(u) ==
    IF user_data[u].waiting_for_reminder
    THEN {TooLongText} \cup (IF Room(u) THEN {NextText(u)} ELSE {})
    ELSE IF user_data[u].waiting_for_deletion THEN Answers
    ELSE {BTN_ADD_REMINDER, BTN_DELETE_REMINDER}

\* In this specification no message of a user arrives during a send.
TextInput ==
    /\ job.pc = "idle"
    /\ \E u \in Users : \E raw \in TextsOf(u) : handle_text_input(u, raw)

SetReminderAny ==
    /\ job.pc = "idle"
    /\ \E u \in Users :
        \E args \in {ArgsTooLong, ArgsNone} \cup (IF Room(u) THEN {NextArgs(u)} ELSE {}) :
            set_reminder_cmd(u, args)

NextLedger == Fire \/ SendOk \/ SendFail \/ SetReminderAny \/ TextInput

SpecLedger == InitLedger /\ [][NextLedger]_vars

\* The storage object under direct calls of its methods.  No handler calls delete_reminder on a list of one entry
\* (button_delete_reminder deletes a single reminder itself), so the methods
\* are called here as any caller may.
Call(op, u) == Out("call", op, u, now.day, BadDateStr, << >>, FALSE)
FsOutcomes == {"ok", "open_fails", "dump_fails"}

InitStorage ==
    /\ now = Morning(0)
    /\ last_day = now.day
    /\ InitStore

StorageFrame == UNCHANGED <<now, last_day, fired, user_names, user_data, fs, job, chat>>

AddCall ==
    /\ \E u \in Users :
          /\ Room(u)
          /\ SetStore(add_reminder(Store, u, ReminderTextOfArgs(NextArgs(u))))
          /\ out' = Call("add_reminder", u)
    /\ StorageFrame

DeleteOne(u, index) ==
    /\ SetStore(delete_reminder(Store, u, index))
    /\ out' = Call("delete_reminder", u)
    /\ StorageFrame

DeleteOneCall == \E u \in Users, index \in 0..MaxItems : DeleteOne(u, index)

DeleteAllCall ==
    /\ \E u \in Users :
          /\ SetStore(delete_all_reminders(Store, u))
          /\ out' = Call("delete_all_reminders", u)
    /\ StorageFrame

NextStorage == AddCall \/ DeleteOneCall \/ DeleteAllCall

SpecStorage == InitStorage /\ [][NextStorage]_vars

\* The same calls and the two on the announced dates, the writes to the file
\* failing or not.
MarkCall ==
    /\ SetStore(mark_announced(Store, date_to_str(now)))
    /\ out' = Call("mark_announced", 0)
    /\ StorageFrame

ClearCall ==
    /\ SetStore(clear_announced(Store))
    /\ out' = Call("clear_announced", 0)
    /\ StorageFrame

\* The file system starts or stops failing.
FsChange ==
    /\ \E f \in FsOutcomes \ {fs} : fs' = f
    /\ out' = NoOut
    /\ UNCHANGED <<now, last_day, fired, reminders, announced_dates, user_names,
                   user_data, disk, job, chat>>

NextCrash ==
    AddCall \/ DeleteOneCall \/ DeleteAllCall \/ MarkCall \/ ClearCall \/ FsChange

SpecCrash == InitStorage /\ [][NextCrash]_vars

\* The timetable on demand: the command, the inline buttons and a date typed
\* in, on a Tuesday and a Wednesday morning with the morning job due, the
\* users adding reminders in between.
InitLookup ==
    /\ now \in {Morning(1), Morning(2)}
    /\ last_day = now.day
    /\ InitStore

\* The dates asked for: Wednesday 2 has the row whose pair number is not a
\* number, Friday 4 is a self-study day.
LookupDays == {2, 4}
MalformedDate == <<Chunk("word", 5, 0)>>

GetTimetable ==
    \E u \in Users :
        \E args \in {<< >>, <<BadDateStr>>} \cup {<<DateStr(d)>> : d \in LookupDays} :
            get_timetable_cmd(u, args)

CallbackAny == \E u \in Users, data \in CallbackData : callback_timetable(u, data)

\* A user asked for a date types one in, well formed or not.
DateInput ==
    \E u \in Users :
        /\ user_data[u].waiting_for_date
        /\ \E raw \in {MalformedDate} \cup {<<Run(" ", 1)>> \o DateText(d) : d \in LookupDays} :
              handle_text_input(u, raw)

\* One user adds a reminder.
SetReminderOne == Room(1) /\ set_reminder_cmd(1, NextArgs(1))

NextLookup ==
    Fire \/ SendOk \/ SendFail \/ SetReminderOne \/ GetTimetable \/ CallbackAny \/ DateInput

SpecLookup == InitLookup /\ [][NextLookup]_vars

\* The same with the announced dates reset now and then: clear_announced is
\* called by no handler, only by whoever operates the process.
NextAnnounce == NextLookup \/ ClearCall

SpecAnnounce == InitLookup /\ [][NextAnnounce]_vars

\* The process is stopped and started again: the storage is loaded from the
\* file, the cache of names and the flags of the users start empty, a send
\* in flight is lost.
Restart ==
    /\ SetStore(load(disk))
    /\ user_names' = [u \in Users |-> NoName]
    /\ user_data' = [u \in Users |-> NoFlags]
    /\ job' = Idle
    /\ out' = Out("restart", "", 0, now.day, BadDateStr, << >>, FALSE)
    /\ UNCHANGED <<now, last_day, fired, fs, chat>>

\* A Thursday morning: the users add reminders and ask for the timetable of
\* today and of tomorrow, the process is restarted now and then.
InitRestart ==
    /\ now = Morning(3)
    /\ last_day = now.day
    /\ InitStore

NextRestart == SetReminder \/ Callback \/ Restart

SpecRestart == InitRestart /\ [][NextRestart]_vars

\* get_next_working_day on its own: from_date is any moment of four weeks,
\* the result is what the call returns.
FromDates ==
    {DateTime(d, TimePoints[p].hour, TimePoints[p].minute) :
        d \in 0..(4 * DAYS_IN_WEEK - 1), p \in 1..Len(TimePoints)}

InitNextDay ==
    /\ now \in FromDates
    /\ last_day = now.day
    /\ InitStore

NextWorkingDay ==
    /\ out.ev = "none"
    /\ LET current == get_next_working_day(now)
       IN  out' = Out("next_working_day", "", 0, now.day, date_to_str(current),
                      << >>, FALSE)
    /\ UNCHANGED <<now, last_day, fired, reminders, announced_dates, user_names,
                   user_data, disk, fs, job, chat>>

NextNextDay == NextWorkingDay

SpecNextDay == InitNextDay /\ [][NextNextDay]_vars

\* The text messages of the users with any flows pending, on a Thursday
\* morning: a user may press a button of the menu, ask to type a date in,
\* and send a number, the word for "all" or a date at any time.
InitFlows ==
    /\ now = Morning(3)
    /\ last_day = now.day
    /\ InitStore

Buttons == {BTN_TIMETABLE, BTN_MY_REMINDERS, BTN_ADD_REMINDER, BTN_DELETE_REMINDER}
\* The texts that are no button: a number, "all", a date.
FreeTexts == {DigitText(1), AllWord, <<Run(" ", 1)>> \o DateText(4)}

\* User 1 presses the buttons; every user may ask to type a date in.
PressButton ==
    \E b \in Buttons : handle_text_input(1, b \o <<Run(" ", 1)>>)

AskCustomDate == \E u \in Users : callback_timetable(u, "timetable_custom")

\* A text that is stored as a reminder needs room in the model: one more
\* than the reminders a user needs to be asked which one to delete.
FreeText ==
    \E u \in Users : \E raw \in FreeTexts :
        /\ user_data[u].waiting_for_reminder =>
              Len(get_reminders(reminders, u)) <= MaxItems
        /\ handle_text_input(u, raw)

NextFlows == PressButton \/ AskCustomDate \/ FreeText

SpecFlows == InitFlows /\ [][NextFlows]_vars

\* ------------------------------------------------------------------ claims
\* What the claims say about a date, read off the timetable file.
RowsOn(date_str) == SelectRows(TimetableData, date_str)
HasSessions(date_str) == RowsOn(date_str) # << >>
IsSelfStudy(date_str) ==
    HasSessions(date_str) /\ \A i \in 1..Len(RowsOn(date_str)) : RowsOn(date_str)[i].Disc = ""
IsWorkingDate(date_str) == date_str.day % 7 < 5
ReminderLines(msg) ==
    {p \in 1..Len(msg) : msg[p].kind \in {"user", "quoted", "numbered"}}
\* The message holds the block of the entry: the line of the user followed
\* by the texts of the user, in the order of the ledger.
HasBlock(msg, entry) ==
    \E p \in 1..Len(msg) :
        /\ msg[p].kind = "user" /\ msg[p].num = entry.uid
        /\ p + Len(entry.items) <= Len(msg)
        /\ \A j \in 1..Len(entry.items) :
              /\ msg[p + j].kind \in {"quoted", "numbered"}
              /\ msg[p + j].text = entry.items[j]
\* The step starts a job of the scheduler / takes it to the send.
Fires == \E k \in JobKinds : ~fired[k] /\ fired'[k]
Renders == job.pc = "idle" /\ job'.pc = "sending"
\* The date the job started by the step is about.
FiredTarget == IF job'.pc = "sending" THEN job'.date_str ELSE out'.target
StoreUnchanged ==
    /\ reminders' = reminders
    /\ announced_dates' = announced_dates
    /\ disk' = disk

\* C1 as the claim states it: a scheduled trigger whose send succeeds leaves
\* the reminder ledger empty.
C1_LedgerEmptyAfterSend == [][out'.ev = "sent" => reminders' = << >>]_vars

\* C1, amended: a scheduled trigger whose send succeeds leaves the reminder
\* ledger as it was (every pending reminder stays pending) and has the
\* target date in the announcement set.
C1_LedgerKeptAfterSend ==
    [][out'.ev = "sent" =>
          /\ reminders' = reminders
          /\ \E i \in 1..Len(announced_dates') : announced_dates'[i] = out'.target]_vars

C1_Witness ==
    /\ out.ev = "sent"
    /\ reminders # << >>
    /\ \A i \in 1..Len(reminders) : HasBlock(out.msg, reminders[i])

\* C2: a scheduled trigger whose send fails changes neither the ledger nor
\* the announcement set nor the file, and every trigger that gets to the
\* send has each pending reminder text in its message.
C2_FailedSendKeepsState ==
    [][/\ out'.ev = "send_failed" => StoreUnchanged /\ chat' = chat
       /\ Renders =>
             \A i \in 1..Len(reminders) : \A j \in 1..Len(reminders[i].items) :
                 \E p \in 1..Len(job'.message) :
                     /\ job'.message[p].kind \in {"quoted", "numbered"}
                     /\ job'.message[p].text = reminders[i].items[j]]_vars

\* The morning send has failed and the evening job has just sent the
\* reminders for the same date.
C2_Witness ==
    /\ out.ev = "sent" /\ out.kind = "evening"
    /\ fired["morning"]
    /\ [kind |-> "morning", target |-> out.target] \notin chat
    /\ ReminderLines(out.msg) # {}
    /\ reminders # << >>

\* C3 as the claim states it: the morning job is about today, the evening
\* job about tomorrow.
C3_TargetDates ==
    out.ev \in {"sent", "send_failed", "suppressed", "job_error"} =>
        out.target = DateStr(IF out.kind = "morning" THEN out.day ELSE out.day + 1)

\* C4 as the claim states it: nothing is sent for a Saturday or a Sunday.
C4_WeekendNeverSent ==
    /\ job.pc = "sending" => IsWorkingDate(job.date_str)
    /\ out.ev = "sent" => IsWorkingDate(out.target)

\* C4, amended: a trigger for a Saturday or a Sunday is suppressed, with no
\* message and the state unchanged, when the timetable has no session on
\* that date; when it has sessions the trigger goes on to the send.
C4_WeekendSuppressedIfEmpty ==
    [][Fires /\ ~IsWorkingDate(FiredTarget) =>
          IF HasSessions(FiredTarget)
          THEN job'.pc = "sending" \/ out'.ev = "job_error"
          ELSE /\ out'.ev = "suppressed" /\ job'.pc = "idle"
               /\ StoreUnchanged /\ chat' = chat]_vars

C4_Witness ==
    /\ out.ev = "suppressed"
    /\ ~IsWorkingDate(out.target)
    /\ reminders # << >>

\* C5: a trigger whose target date has no session in the timetable is
\* suppressed: no message, the ledger, the announcement set and the file
\* unchanged.
C5_NoSessionsSuppressed ==
    [][Fires /\ ~HasSessions(FiredTarget) =>
          /\ out'.ev = "suppressed" /\ job'.pc = "idle"
          /\ StoreUnchanged /\ chat' = chat]_vars

C5_Witness ==
    /\ out.ev = "suppressed"
    /\ IsWorkingDate(out.target)
    /\ ~HasSessions(out.target)
    /\ reminders # << >>

\* C6: a scheduled message that is sent is the first one for its target
\* date and trigger kind.
C6_NoSecondDispatch ==
    [][out'.ev = "sent" => [kind |-> out'.kind, target |-> out'.target] \notin chat]_vars

\* The same job has sent on two days.
C6_Witness ==
    /\ out.ev = "sent"
    /\ \E p \in chat : p.kind = out.kind /\ p.target # out.target
    /\ \E i \in 1..Len(announced_dates) : announced_dates[i] = out.target

\* C7: the message a trigger renders for a working day with sessions that
\* is not a self-study day has the block of every user of the ledger, the
\* texts of the user in the order of insertion, and is the message sent.
C7_EveryUserBlock ==
    [][/\ (Renders /\ IsWorkingDate(job'.date_str) /\ ~IsSelfStudy(job'.date_str)) =>
             \A i \in 1..Len(reminders) : HasBlock(job'.message, reminders[i])
       /\ out'.ev = "sent" => out'.msg = job.message]_vars

\* Two users in the message, one of them with two reminders.
C7_Witness ==
    /\ out.ev = "sent"
    /\ IsWorkingDate(out.target) /\ ~IsSelfStudy(out.target)
    /\ Cardinality({p \in 1..Len(out.msg) : out.msg[p].kind = "user"}) = 2
    /\ \E p \in 1..Len(out.msg) : out.msg[p].kind = "numbered" /\ out.msg[p].num = 2

\* C8 as the claim states it: no message for a self-study day, scheduled or
\* on demand, has a reminder text.
C8_SelfStudyNoReminders ==
    (out.ev = "sent" \/ (out.ev = "reply" /\ out.kind = "timetable")) /\ IsSelfStudy(out.target)
        => ReminderLines(out.msg) = {}

\* C8, amended: a message for a self-study day starts with the fixed
\* self-study notice and has no session line, and the reminders follow as
\* on any other day: the scheduled message has the block of every user of
\* the ledger, the reply on demand has them when the date was not announced.
C8_SelfStudyNoticeThenReminders ==
    [][/\ (Renders /\ IsSelfStudy(job'.date_str)) =>
             /\ job'.message[1].kind = "self_study"
             /\ \A p \in 1..Len(job'.message) : job'.message[p].kind # "class"
             /\ \A i \in 1..Len(reminders) : HasBlock(job'.message, reminders[i])
       /\ (out'.ev = "reply" /\ out'.kind = "timetable" /\ IsSelfStudy(out'.target)) =>
             /\ out'.msg[1].kind = "self_study"
             /\ \A p \in 1..Len(out'.msg) : out'.msg[p].kind # "class"
             /\ out'.block = (reminders # << >> /\
                              \A i \in 1..Len(announced_dates) :
                                  announced_dates[i] # out'.target)
             /\ IF out'.block
                THEN \A i \in 1..Len(reminders) : HasBlock(out'.msg, reminders[i])
                ELSE ReminderLines(out'.msg) = {}]_vars

C8_Witness ==
    /\ out.ev = "sent"
    /\ IsSelfStudy(out.target)
    /\ reminders # << >>
    /\ \A i \in 1..Len(reminders) : HasBlock(out.msg, reminders[i])


\* C9 as the claim states it, for a cap the model can reach: no user ever
\* holds more reminders than the cap.
C9_PerUserCap ==
    \E cap \in 1..(MaxItems - 1) :
        \A u \in Users : Len(get_reminders(reminders, u)) <= cap

\* C9, amended: there is no cap.  An add (by /set_reminder or by the text
\* a user was asked for) whose text has at most 200 characters is accepted
\* whatever the user holds and appends the text; one whose text is longer,
\* or a /set_reminder without a text, is rejected and leaves the ledger and
\* the file alone.
C9_NoCap ==
    [][\A u \in Users :
          /\ \A args \in {ArgsQuoted, ArgsEmptyQuotes, ArgsLongest} :
                LET raw == <<Run(" ", 1)>> \o ReminderTextOfArgs(args) \o <<Run(" ", 2)>>
                IN  (user_data[u].waiting_for_reminder /\ handle_text_input(u, raw)) =>
                        /\ out'.kind = "added"
                        /\ get_reminders(reminders', u)
                             = Append(get_reminders(reminders, u), ReminderTextOfArgs(args))
          /\ (user_data[u].waiting_for_reminder /\ handle_text_input(u, TooLongText)) =>
                /\ out'.kind = "too_long"
                /\ reminders' = reminders /\ disk' = disk
          /\ \A args \in {ArgsQuoted, ArgsEmptyQuotes, ArgsLongest} :
                set_reminder_cmd(u, args) =>
                    /\ out'.kind = "added"
                    /\ get_reminders(reminders', u)
                         = Append(get_reminders(reminders, u), ReminderTextOfArgs(args))
          /\ \A args \in {ArgsTooLong, ArgsNone} :
                set_reminder_cmd(u, args) =>
                    /\ out'.kind \in {"too_long", "usage"}
                    /\ reminders' = reminders /\ disk' = disk]_vars

\* A user has just added a reminder and holds as many as the model allows.
C9_Witness ==
    /\ out.ev = "reply" /\ out.kind = "added"
    /\ Len(get_reminders(reminders, out.user)) = MaxItems
    /\ out.msg[1].text = get_reminders(reminders, out.user)[MaxItems]

\* C10: no user key maps to an empty list, in memory or in the file, so a
\* user has a key exactly when the user has a reminder; no key comes twice.
C10_NoEmptyLists ==
    /\ \A i \in 1..Len(reminders) : reminders[i].items # << >>
    /\ \A i, j \in 1..Len(reminders) : reminders[i].uid = reminders[j].uid => i = j
    /\ \A u \in Users : HasKey(reminders, u) <=> get_reminders(reminders, u) # << >>
    /\ \A i \in 1..Len(disk.reminders) : disk.reminders[i].items # << >>

\* A user has just deleted all his reminders, another user still has some,
\* and the file says the same.
C10_Witness ==
    /\ out.ev = "reply" /\ out.kind \in {"deleted", "deleted_all"}
    /\ ~HasKey(reminders, out.user)
    /\ reminders # << >>
    /\ disk.status = "ok" /\ Len(disk.reminders) = Len(reminders)
    /\ fired["morning"]


\* C11: delete_one(user, i) with i inside [1, count] removes the i-th entry
\* and nothing else, the other entries keeping their order, and removes the
\* key of the user when the list becomes empty; with i out of range or the
\* user absent it changes nothing, in memory or in the file.  handle_deletion,
\* given the number i, ends with the same storage and answers "deleted" in
\* the first case and "wrong number" in the second.
C11_DeleteOne ==
    [][\A u \in Users : \A i \in 1..(MaxItems + 1) :
          DeleteOne(u, i - 1) =>
              LET items == get_reminders(reminders, u)
                  count == Len(items)
                  rest == [j \in 1..(count - 1) |-> IF j < i THEN items[j] ELSE items[j + 1]]
                  r == handle_deletion(Store, Flags(FALSE, TRUE, FALSE), u, DigitText(i))
              IN  /\ IF HasKey(reminders, u) /\ i <= count
                     THEN /\ get_reminders(reminders', u) = rest
                          /\ HasKey(reminders', u) <=> count > 1
                          /\ r.out.kind = "deleted_one" /\ r.out.msg[1].text = items[i]
                     ELSE /\ reminders' = reminders /\ disk' = disk
                          /\ r.out.kind = "bad_number"
                  /\ \A v \in Users \ {u} :
                        /\ get_reminders(reminders', v) = get_reminders(reminders, v)
                        /\ HasKey(reminders', v) <=> HasKey(reminders, v)
                  /\ announced_dates' = announced_dates
                  /\ r.store.reminders = reminders'
                  /\ ~r.flags.waiting_for_deletion]_vars

\* A delete-one has removed the key of a user, the other user keeping two
\* reminders.
C11_Witness ==
    /\ out.ev = "call" /\ out.kind = "delete_reminder"
    /\ ~HasKey(reminders, out.user)
    /\ \E v \in Users : Len(get_reminders(reminders, v)) = MaxItems
    /\ disk = ToJson(Store)


\* C12 as the claim states it: every reminder text in the ledger is non-empty
\* once the white space around it is taken off and has at most 500
\* characters.
C12_StoredTextsBounded ==
    \A i \in 1..Len(reminders) : \A j \in 1..Len(reminders[i].items) :
        /\ Strip(reminders[i].items[j], Whitespace) # EmptyText
        /\ TextLen(reminders[i].items[j]) <= 500


\* The step answers a request for a timetable: the command, an inline
\* button or a date typed in, whatever the answer.
LookupStep ==
    \/ out'.ev = "reply" /\ out'.kind \in {"timetable", "bad_date", "ask_date"}
    \/ out'.ev = "handler_error"

\* C13: a timetable lookup on demand leaves the reminder lists of all users
\* as they were, whether the reply has the reminder block or not.
C13_LookupKeepsLedger ==
    [][LookupStep => reminders' = reminders]_vars

\* A reply with the reminders of a user, who still has them.
C13_Witness ==
    /\ out.ev = "reply" /\ out.kind = "timetable" /\ out.block
    /\ Len(get_reminders(reminders, 1)) = MaxItems
    /\ \A i \in 1..Len(reminders) : HasBlock(out.msg, reminders[i])


\* The step replies with a timetable that has / has not the reminder block.
ReplyWithBlock == out'.ev = "reply" /\ out'.kind = "timetable" /\ out'.block
ReplyWithoutBlock == out'.ev = "reply" /\ out'.kind = "timetable" /\ ~out'.block
ResetStep == out'.ev = "call" /\ out'.kind = "clear_announced"
Announced(dates, date_str) == \E i \in 1..Len(dates) : dates[i] = date_str

\* C14 as the claim states it: the announced dates change only by a lookup
\* on demand whose reply has the reminder block, which adds its date, and
\* by the reset, which removes them all.
C14_GrowsOnlyOnDemand ==
    [][announced_dates' # announced_dates =>
          \/ ReplyWithBlock /\ announced_dates' = Append(announced_dates, out'.target)
          \/ ResetStep /\ announced_dates' = << >>]_vars

\* C14, amended: the announced dates grow by a lookup on demand whose reply
\* has the reminder block and by a scheduled trigger whose send succeeds,
\* each adding its date when it is not there yet; a lookup without the
\* block, a suppressed trigger and a failed send add nothing, and a date
\* leaves only by the reset.
C14_GrowsOnDemandOrSent ==
    [][/\ announced_dates' # announced_dates =>
             \/ ReplyWithBlock /\ announced_dates' = Append(announced_dates, out'.target)
             \/ /\ out'.ev = "sent" /\ ~Announced(announced_dates, out'.target)
                /\ announced_dates' = Append(announced_dates, out'.target)
             \/ ResetStep /\ announced_dates' = << >>
       /\ (ReplyWithBlock \/ out'.ev = "sent") => Announced(announced_dates', out'.target)
       /\ (ReplyWithoutBlock \/ out'.ev \in {"suppressed", "send_failed", "job_error"})
             => announced_dates' = announced_dates]_vars

\* A scheduled message has added its date to one a lookup had added.
C14_Witness ==
    /\ out.ev = "sent"
    /\ Len(announced_dates) = 2
    /\ announced_dates[2] = out.target
    /\ reminders # << >>


\* C15 as the claim states it: once a call of the storage has returned, the
\* file holds what the memory holds, so that loading it gives back the
\* reminders and the announced dates, also when a write has failed.
C15_DurableEqualsMemory ==
    out.ev = "call" =>
        /\ load(disk).reminders = reminders
        /\ load(disk).announced_dates = announced_dates


RestartStep == out'.ev = "restart"
\* The name the reminders of user u are shown under.
ShownName(names, u) == NameOrDefault(names, u)

\* C16 as the claim states it: a restart with a ledger that is not empty
\* gives back, for every user of the ledger, the same list of texts and
\* the same display name.
C16_RoundTripWithNames ==
    [][RestartStep /\ reminders # << >> =>
          /\ reminders' = reminders
          /\ \A i \in 1..Len(reminders) :
                ShownName(user_names', reminders[i].uid)
                    = ShownName(user_names, reminders[i].uid)]_vars

\* C16, amended: a restart with a ledger that is not empty gives back the
\* users in the same order, each with the same list of texts, and the
\* announced dates; the display names are not in the file: after the
\* restart no name is known and the reminders of a user are shown under
\* "User <id>".
C16_RoundTripWithoutNames ==
    [][RestartStep /\ reminders # << >> =>
          /\ reminders' = reminders
          /\ announced_dates' = announced_dates
          /\ disk' = disk
          /\ \A u \in Users : user_names'[u] = NoName
          /\ \A i \in 1..Len(reminders') :
                LET block == UserBlock(reminders'[i], user_names')
                IN  /\ block[1].kind = "user"
                    /\ block[1].name = (IF reminders'[i].uid = 1 THEN "User 1" ELSE "User 2")
                    /\ Len(block) = Len(reminders[i].items) + 2]_vars

\* After a restart the ledger has both users, one of them with as many
\* reminders as the model allows, and an announced date.
C16_Witness ==
    /\ out.ev = "restart"
    /\ Len(reminders) = Cardinality(Users)
    /\ \E i \in 1..Len(reminders) : Len(reminders[i].items) = MaxItems
    /\ announced_dates # << >>
    /\ \A u \in Users : user_names[u] = NoName


\* C17: the next working day is after from_date, is a day from Monday to
\* Friday, and every day between from_date and it is a Saturday or a Sunday.
C17_NextWorkingDay ==
    out.ev = "next_working_day" =>
        /\ out.target.ok
        /\ out.target.day > out.day
        /\ IsWorkingDate(out.target)
        /\ \A d \in (out.day + 1)..(out.target.day - 1) : ~IsWorkingDate(DateStr(d))

\* From a Friday evening the next working day is the Monday after.
C17_Witness ==
    /\ out.ev = "next_working_day"
    /\ out.day % 7 = 4 /\ now.hour = REMINDER_EVENING_TIME.hour
    /\ out.target.day = out.day + 3


\* C18: a date that is not well formed, as the argument of /get_timetable
\* or as the text of a user asked for a date, is answered with the "wrong
\* date format" message; the ledger, the announced dates and the file are
\* unchanged, the reply has no reminder, nothing goes to the chat, and the
\* user asked for a date is still asked.
C18_MalformedDateRejected ==
    [][\A u \in Users :
          (\/ get_timetable_cmd(u, <<BadDateStr>>)
           \/ user_data[u].waiting_for_date /\ handle_text_input(u, MalformedDate)) =>
              /\ out'.ev = "reply" /\ out'.kind = "bad_date" /\ out'.user = u
              /\ StoreUnchanged
              /\ ~out'.block /\ ReminderLines(out'.msg) = {}
              /\ chat' = chat /\ job' = job
              /\ user_data' = user_data]_vars

\* A user asked for a date has been told that the date is wrong, with
\* reminders pending and no date announced.
C18_Witness ==
    /\ out.ev = "reply" /\ out.kind = "bad_date"
    /\ user_data[out.user].waiting_for_date
    /\ reminders # << >>
    /\ announced_dates = << >>


\* C19 as the claim states it: what a send delivers is the message rendered
\* before it, and a reminder that is not in that message, having been added
\* during the send, is not pending once the send is done.
C19_InterleavedAddLost ==
    [][out'.ev = "sent" =>
          /\ out'.msg = job.message
          /\ \A i \in 1..Len(reminders') : HasBlock(out'.msg, reminders'[i])]_vars

\* C19, amended: a reminder added during a send is appended to the list of
\* the user and leaves the message being sent as it was rendered; the send
\* delivers that message and changes no list, so the reminder is not in the
\* message and is still pending afterwards.
C19_InterleavedAddPending ==
    [][/\ \A u \in Users :
             (job.pc = "sending" /\ set_reminder_cmd(u, NextArgs(u))) =>
                 /\ job' = job
                 /\ get_reminders(reminders', u)
                      = Append(get_reminders(reminders, u), ReminderTextOfArgs(NextArgs(u)))
       /\ out'.ev = "sent" =>
             /\ out'.msg = job.message
             /\ \A u \in Users : get_reminders(reminders', u) = get_reminders(reminders, u)]_vars

\* A message with reminders has been sent, and a user holds a reminder that
\* is not in it.
C19_Witness ==
    /\ out.ev = "sent"
    /\ ReminderLines(out.msg) # {}
    /\ \E i \in 1..Len(reminders) : ~HasBlock(out.msg, reminders[i])


\* C20 as the claim states it: a lookup or a scheduled trigger for a date
\* with a row whose pair number is not a number goes through, the row
\* counting as pair 0: no handler and no job ends in an exception.
C20_NonNumericPairTolerated ==
    out.ev \notin {"handler_error", "job_error"}


\* C21: a reply on demand has the reminder block only for a date that is
\* not announced, and announces it; with a date announced the reply has no
\* reminder; a scheduled message that is sent announces its date; and an
\* announced date stays announced by every step but the reset.  So between
\* two resets at most one reply on demand for a date has the block, and
\* none has it after a scheduled message for the date was sent.
C21_BlockAtMostOnce ==
    [][/\ ReplyWithBlock =>
             /\ ~Announced(announced_dates, out'.target)
             /\ Announced(announced_dates', out'.target)
       /\ (out'.ev = "reply" /\ out'.kind = "timetable"
              /\ Announced(announced_dates, out'.target)) =>
             /\ ~out'.block
             /\ ReminderLines(out'.msg) = {}
       /\ out'.ev = "sent" => Announced(announced_dates', out'.target)
       /\ ~ResetStep =>
             \A i \in 1..Len(announced_dates) :
                 Announced(announced_dates', announced_dates[i])]_vars

\* A reply without the reminders, which are pending, for the date of a
\* scheduled message sent before, another date having been announced since.
C21_Witness ==
    /\ out.ev = "reply" /\ out.kind = "timetable" /\ ~out.block
    /\ reminders # << >>
    /\ \E p \in chat : p.target = out.target
    /\ Len(announced_dates) = 2 /\ announced_dates[1] = out.target


\* No list of the ledger is longer after the step: no text was stored.
NothingStored ==
    \A v \in Users : Len(get_reminders(reminders', v)) <= Len(get_reminders(reminders, v))

\* C22: a text message goes to one flow.  A text that is the label of a
\* button runs that button, stores no reminder and announces no date; any
\* other text goes to the first flow pending, in the order reminder,
\* deletion, date, and to none when no flow is pending.  The flags of the
\* other flows and of the other users stay as they were.
C22_OneFlowPerText ==
    [][\A u \in Users : \A raw \in FreeTexts \cup {b \o <<Run(" ", 1)>> : b \in Buttons} :
          handle_text_input(u, raw) =>
              LET text == Strip(raw, Whitespace)
                  F == user_data[u]
                  G == user_data'[u]
              IN  /\ \A v \in Users \ {u} : user_data'[v] = user_data[v]
                  /\ out'.ev = "reply" /\ out'.user = u
                  /\ IF text = BTN_TIMETABLE
                     THEN out'.kind = "choose_date" /\ StoreUnchanged /\ G = F
                     ELSE IF text = BTN_MY_REMINDERS
                     THEN /\ out'.kind \in {"my_reminders", "no_reminders"}
                          /\ StoreUnchanged /\ G = F
                     ELSE IF text = BTN_ADD_REMINDER
                     THEN /\ out'.kind = "ask_reminder" /\ StoreUnchanged
                          /\ G = [F EXCEPT !.waiting_for_reminder = TRUE]
                     ELSE IF text = BTN_DELETE_REMINDER
                     THEN /\ out'.kind \in {"nothing_to_delete", "deleted", "ask_number"}
                          /\ NothingStored /\ announced_dates' = announced_dates
                          /\ G.waiting_for_reminder = F.waiting_for_reminder
                          /\ G.waiting_for_date = F.waiting_for_date
                     ELSE IF F.waiting_for_reminder
                     THEN /\ out'.kind \in {"added", "too_long"}
                          /\ out'.kind = "added" =>
                                /\ get_reminders(reminders', u)
                                     = Append(get_reminders(reminders, u), text)
                                /\ ~G.waiting_for_reminder
                          /\ announced_dates' = announced_dates
                          /\ G.waiting_for_deletion = F.waiting_for_deletion
                          /\ G.waiting_for_date = F.waiting_for_date
                     ELSE IF F.waiting_for_deletion
                     THEN /\ out'.kind \in {"deleted_all", "deleted_one", "bad_number",
                                            "not_a_number"}
                          /\ NothingStored /\ announced_dates' = announced_dates
                          /\ ~G.waiting_for_deletion
                          /\ G.waiting_for_reminder = F.waiting_for_reminder
                          /\ G.waiting_for_date = F.waiting_for_date
                     ELSE IF F.waiting_for_date
                     THEN /\ out'.kind \in {"timetable", "bad_date"}
                          /\ reminders' = reminders
                          /\ G.waiting_for_reminder = F.waiting_for_reminder
                          /\ G.waiting_for_deletion = F.waiting_for_deletion
                     ELSE out'.kind = "unknown" /\ StoreUnchanged /\ G = F]_vars

\* A text has been stored as a reminder while the user was also asked for a
\* number to delete and for a date, and is still asked for both.
C22_Witness ==
    /\ out.ev = "reply" /\ out.kind = "added"
    /\ ~user_data[out.user].waiting_for_reminder
    /\ user_data[out.user].waiting_for_deletion
    /\ user_data[out.user].waiting_for_date
    /\ Len(get_reminders(reminders, out.user)) = MaxItems + 1

=============================================================================
